---- MODULE Spec2Model ----
(***************************************************************************)
(* Model of the tile-parallel execution engine of SLATE, as seen by one   *)
(* MPI rank.                                                               *)
(*                                                                         *)
(* herk (src/slate_herk.cc): the master thread issues OpenMP tasks in      *)
(* program order; each task carries depend(in:...) / depend(out:...)       *)
(* clauses on the elements of the token arrays bcast[] and gemm[].  A task *)
(* may start once every earlier sibling task it depends on (by the OpenMP  *)
(* rules for in/out clauses) has finished.  Tasks run concurrently with    *)
(* the master thread and with each other.  After the parallel region the   *)
(* master moves the local tiles of C to the host and clears the workspace. *)
(*                                                                         *)
(* The model works on the lower-logical view of C that lines 72-75 of      *)
(* slate_herk.cc establish.  Tile values are integers.                     *)
(***************************************************************************)
EXTENDS Integers, Sequences, FiniteSets, TLC

\* ------------------------------------------------------------------------
\* Bounds of the model
\* ------------------------------------------------------------------------
MaxNT == 3
MaxMT == 2
MaxLookahead == 3

\* ------------------------------------------------------------------------
\* Input sets
\* ------------------------------------------------------------------------
Targets == {"HostTask", "HostNest", "HostBatch", "Devices"}

\* p-by-q process grids of the 2-D block-cyclic distribution
Grids == {<<1, 1>>, <<2, 1>>, <<1, 2>>, <<2, 2>>}

Alphas == {1, 2}
Betas == {0, 2}

\* the options map (a set of <<Option, Value>> entries) either has no
\* Option::Lookahead entry or maps it to a value
OptionMaps == {{}} \cup {{<<"Lookahead", v>>} : v \in 0..MaxLookahead}

VARIABLES
    nt,          \* A.nt(): number of block columns of A
    mt,          \* A.mt() = C.mt(): number of block rows
    grid,        \* <<p, q>> process grid
    mpiRank,     \* the rank that executes this call
    target,      \* template parameter Target
    opts,        \* the options map
    alpha,
    beta,
    pc,          \* position of the master thread
    kk,          \* loop variable k of the master thread
    lookahead,   \* the parameter passed to internal::specialization::herk
    tasks,       \* the tasks issued so far, in program order
    status,      \* status[n] of tasks[n]: "waiting", "running", "done"
    work,        \* work[n]: the tile values a running herk task will write
    hostC,       \* host (origin) copies of the local tiles of C
    devC,        \* device copies of the local tiles of C
    onDevice,    \* the local tiles of C that have a device copy
    hostValid,   \* whether the host copy of a tile holds its latest value
    recvA,       \* tiles <<i, k>> of A received from other ranks
    fault,       \* a task read a tile this rank neither owns nor received
    batchArrays, \* C.allocateBatchArrays() has been called
    devWorkspace, \* device workspace of C is reserved
    failed       \* the tasks in which a kernel failed

\* gesv_mixed (src/unnamed/part_000): one invocation
VARIABLES
    g_pc,         \* position inside gesv_mixed
    g_target,     \* Option::Target
    itermax,      \* Option::MaxIterations
    tol,          \* Option::Tolerance
    use_fallback, \* Option::UseFallbackSolver
    nrhs,         \* X.n() = B.n(): number of right-hand sides
    iter,         \* the output parameter iter
    info,         \* the status that is returned
    converged,
    iiter,        \* loop variable of the refinement loop
    Anorm,
    cte,          \* stopping criterion Anorm * tol
    colnorms_X,
    colnorms_R,
    matA,         \* content of A
    matB,         \* content of B
    matX,         \* content of X
    matR,         \* content of the workspace R
    matA_lo,      \* content of the workspace A_lo
    matX_lo,      \* content of the workspace X_lo
    pivots,       \* the factorization the pivot sequence belongs to
    calls,        \* the factorizations and solves performed, in order
    timers,       \* keys of the global timers map written so far
    held          \* matrices whose tiles are held on the devices

inputs == <<nt, mt, grid, mpiRank, target, opts, alpha, beta>>
control == <<pc, kk, lookahead>>
graph == <<tasks, status, work>>
tiles == <<hostC, devC, onDevice, hostValid, recvA, fault>>
wspace == <<batchArrays, devWorkspace>>
gesv == <<g_pc, g_target, itermax, tol, use_fallback, nrhs, iter, info,
          converged, iiter, Anorm, cte, colnorms_X, colnorms_R, matA, matB,
          matX, matR, matA_lo, matX_lo, pivots, calls, timers, held>>
herkVars == <<inputs, control, graph, tiles, wspace, failed>>

\* heev (src/src/heev.cc): one collective call, every process of A.mpiComm()
VARIABLES
    h_grid,    \* process grid p x q of A
    h_n,       \* A.n(), the order of the matrix
    h_nb,      \* A.tileNb(0)
    h_pc,      \* position of each rank inside heev
    h_log,     \* the stages each rank has invoked, in order
    bandA,     \* per rank: the band tiles of A it holds after he2hb
    Aband,     \* per rank: the tiles of Aband it holds, with their content
    sent,      \* tiles of the band sent to the owner in Aband, not yet received
    W,         \* per rank: length and content of the vector W
    E          \* per rank: the vector E, once constructed

heevVars == <<h_grid, h_n, h_nb, h_pc, h_log, bandA, Aband, sent, W, E>>
\* a TriangularMatrix conversion with a tile range
VARIABLES
    t_pc,       \* "idle", "call", "done"
    t_range,    \* <<i1, i2, j1, j2>>
    t_view,     \* the TriangularMatrix object, if one was constructed
    t_error     \* what() of the exception thrown, or "none"

triVars == <<t_pc, t_range, t_view, t_error>>
vars == <<herkVars, gesv, heevVars, triVars>>

\* ------------------------------------------------------------------------
\* Tile matrix (collaborator): ownership and input values
\* ------------------------------------------------------------------------
\* 2-D block-cyclic owner of tile (i, j)
tileRank(i, j) == (i % grid[1]) + (j % grid[2]) * grid[1]

tileIsLocal(i, j) == tileRank(i, j) = mpiRank

\* tiles of the lower triangle of C, C(i, j) with i >= j
LowerTiles == {t \in (0..(mt - 1)) \X (0..(mt - 1)) : t[1] >= t[2]}

LocalC == {t \in LowerTiles : tileIsLocal(t[1], t[2])}

\* input values: tile A(i, k) and tile C(i, j) on entry
AVal(i, k) == 1 + i + mt * k
CInit(i, j) == 1 + i + j

\* ------------------------------------------------------------------------
\* Dependency tokens and the OpenMP dependence rule
\* ------------------------------------------------------------------------
\* element idx of the token array arr ("bcast" or "gemm")
Tok(arr, idx) == [arr |-> arr, idx |-> idx]

\* a later task t waits for an earlier sibling s when s writes what t reads
\* or writes, or s reads what t writes
DependsOn(s, t) ==
    \/ s.out \cap (t.in \cup t.out) # {}
    \/ s.in \cap t.out # {}

Ready(n) ==
    /\ status[n] = "waiting"
    /\ \A m \in 1..(n - 1) : DependsOn(tasks[m], tasks[n]) => status[m] = "done"

\* mutant: the end of the parallel region does not wait for the tasks
AllTasksDone_NoWait == TRUE

AllTasksDone == \A n \in 1..Len(tasks) : status[n] = "done"

\* ------------------------------------------------------------------------
\* The tasks herk issues, with their depend clauses
\* ------------------------------------------------------------------------
\* "send 1st block col of A"
Bcast0Task ==
    [kind |-> "bcast", k |-> 0, coef |-> 0,
     in |-> {}, out |-> {Tok("bcast", 0)}]

\* mutant: the prefetch loop sends one block column too many
PrefetchCond_OneMore(k) == k < lookahead + 2 /\ k < nt

\* mutant: the device target skips the prefetch loop
PrefetchCond_HostOnly(k) ==
    target # "Devices" /\ k < lookahead + 1 /\ k < nt

\* mutant: no block column is prefetched
PrefetchCond_Never(k) == FALSE

\* mutant: the prefetch loop is not clamped to the block columns of A
PrefetchCond_NoClamp(k) == k < lookahead + 1

\* "send next lookahead block cols of A": loop condition and task
PrefetchCond(k) == k < lookahead + 1 /\ k < nt

PrefetchTask(k) ==
    [kind |-> "bcast", k |-> k, coef |-> 0,
     in |-> {Tok("bcast", k - 1)}, out |-> {Tok("bcast", k)}]

\* mutant: the first herk task declares no dependence on bcast[0]
Herk0Task_NoDep ==
    [kind |-> "herk", k |-> 0, coef |-> beta,
     in |-> {}, out |-> {Tok("gemm", 0)}]

\* "multiply alpha A(:, 0) A(0, :)^H + beta C"
Herk0Task ==
    [kind |-> "herk", k |-> 0, coef |-> beta,
     in |-> {Tok("bcast", 0)}, out |-> {Tok("gemm", 0)}]

\* mutant: the main-loop broadcast does not wait for bcast[k+lookahead-1]
LoopBcastTask_NoBcastDep(k) ==
    [kind |-> "bcast", k |-> k + lookahead, coef |-> 0,
     in |-> {Tok("gemm", k - 1)},
     out |-> {Tok("bcast", k + lookahead)}]

\* mutant: the main-loop broadcast does not wait for gemm[k-1]
LoopBcastTask_NoGemmDep(k) ==
    [kind |-> "bcast", k |-> k + lookahead, coef |-> 0,
     in |-> {Tok("bcast", k + lookahead - 1)},
     out |-> {Tok("bcast", k + lookahead)}]

\* "send next block col of A": guard and task of main-loop iteration k
LoopBcastCond(k) == k + lookahead < nt

LoopBcastTask(k) ==
    [kind |-> "bcast", k |-> k + lookahead, coef |-> 0,
     in |-> {Tok("gemm", k - 1), Tok("bcast", k + lookahead - 1)},
     out |-> {Tok("bcast", k + lookahead)}]

\* mutant: the main-loop herk does not wait for bcast[k]
LoopHerkTask_NoBcastDep(k) ==
    [kind |-> "herk", k |-> k, coef |-> 1,
     in |-> {Tok("gemm", k - 1)},
     out |-> {Tok("gemm", k)}]

\* mutant: the main-loop herk does not wait for gemm[k-1]
LoopHerkTask_NoGemmDep(k) ==
    [kind |-> "herk", k |-> k, coef |-> 1,
     in |-> {Tok("bcast", k)},
     out |-> {Tok("gemm", k)}]

\* mutant: the main-loop herk scales C by beta again
LoopHerkTask_BetaAgain(k) ==
    [kind |-> "herk", k |-> k, coef |-> beta,
     in |-> {Tok("gemm", k - 1), Tok("bcast", k)},
     out |-> {Tok("gemm", k)}]

\* "multiply alpha A(:, k) A(k, :) + C, no beta"
LoopHerkTask(k) ==
    [kind |-> "herk", k |-> k, coef |-> 1,
     in |-> {Tok("bcast", k), Tok("gemm", k - 1)},
     out |-> {Tok("gemm", k)}]

\* ------------------------------------------------------------------------
\* Tile operations
\* ------------------------------------------------------------------------
\* ranks that tileBcast sends A(i, k) to: the owners of block row
\* C(i, 0:i) and of block column C(i:mt-1, i)
\* mutant: the tile goes only to the owners of block row i of C
BcastDest_RowOnly(i) == {tileRank(i, j) : j \in 0..i}

BcastDest(i) ==
    {tileRank(i, j) : j \in 0..i} \cup {tileRank(r, i) : r \in i..(mt - 1)}

\* mutant: the broadcast also writes the tiles this rank owns
BcastRecv_OverOrigin(k) ==
    {<<i, k>> : i \in {r \in 0..(mt - 1) : mpiRank \in BcastDest(r)}}

\* the tiles of block column k of A that this rank receives in the broadcast
BcastRecv(k) ==
    {<<i, k>> : i \in {r \in 0..(mt - 1) :
                          mpiRank \in BcastDest(r) /\ ~tileIsLocal(r, k)}}

HaveA(i, k) == tileIsLocal(i, k) \/ <<i, k>> \in recvA

ReadA(i, k) == IF HaveA(i, k) THEN AVal(i, k) ELSE 0

\* the latest value of local tile t of C: the device copy when there is one
CurVal(t) == IF t \in onDevice THEN devC[t] ELSE hostC[t]

\* single-tile kernel: C(i, j) = al * A(i, k) * A(j, k)^H + be * C(i, j)
HerkTile(al, aik, ajk, be, c) == al * aik * ajk + be * c

\* internal::herk on block column k: the new values of the local tiles
HerkUpdate(k, be) ==
    [t \in LocalC |-> HerkTile(alpha, ReadA(t[1], k), ReadA(t[2], k),
                               be, CurVal(t))]

HerkReadsMissing(k) ==
    \E t \in LocalC : ~HaveA(t[1], k) \/ ~HaveA(t[2], k)

NoWork == [t \in LocalC |-> 0]

\* tileMoveToHost on the tiles T: a tile that has a device copy is copied to
\* its host origin, which becomes valid, and the device copy is dropped
HostAfterMove(T) ==
    [t \in LocalC |-> IF t \in T /\ t \in onDevice THEN devC[t] ELSE hostC[t]]

ValidAfterMove(T) ==
    [t \in LocalC |-> IF t \in T /\ t \in onDevice THEN TRUE ELSE hostValid[t]]

\* mutant: the loop over i starts at j + 1 and skips the diagonal tiles
FlushTiles_StrictlyLower ==
    {t \in (0..(mt - 1)) \X (0..(mt - 1)) :
        /\ t[2] \in 0..(mt - 1)
        /\ t[1] \in (t[2] + 1)..(mt - 1)
        /\ tileIsLocal(t[1], t[2])}

\* the local tiles the loop after the parallel region moves to the host
FlushTiles ==
    {t \in (0..(mt - 1)) \X (0..(mt - 1)) :
        /\ t[2] \in 0..(mt - 1)
        /\ t[1] \in t[2]..(mt - 1)
        /\ tileIsLocal(t[1], t[2])}

\* herk(alpha, A, beta, C, opts): the lookahead it passes on
HasOption(name) == \E e \in opts : e[1] = name

OptionAt(name) == (CHOOSE e \in opts : e[1] = name)[2]

\* mutant: a missing Lookahead entry gives 0
GetLookahead_Default0 ==
    IF HasOption("Lookahead") THEN OptionAt("Lookahead") ELSE 0

GetLookahead == IF HasOption("Lookahead") THEN OptionAt("Lookahead") ELSE 1

\* ------------------------------------------------------------------------
\* Initial state
\* ------------------------------------------------------------------------
\* the state at the call of herk, the options map drawn from optionMaps
HerkInitOn(blockCols, optionMaps) ==
    /\ nt \in blockCols
    /\ mt \in 1..MaxMT
    /\ grid \in Grids
    /\ mpiRank \in 0..(grid[1] * grid[2] - 1)
    /\ target \in Targets
    /\ opts \in optionMaps
    /\ alpha \in Alphas
    /\ beta \in Betas
    /\ pc = "call"
    /\ kk = 0
    /\ lookahead = 0
    /\ tasks = <<>>
    /\ status = <<>>
    /\ work = <<>>
    /\ hostC = [t \in LocalC |-> CInit(t[1], t[2])]
    /\ devC = [t \in LocalC |-> 0]
    /\ onDevice = {}
    /\ hostValid = [t \in LocalC |-> TRUE]
    /\ recvA = {}
    /\ fault = FALSE
    /\ batchArrays = FALSE
    /\ devWorkspace = FALSE
    /\ failed = {}

HerkInit(optionMaps) == HerkInitOn(1..MaxNT, optionMaps)

\* gesv_mixed is not being called
GesvIdle ==
    /\ g_pc = "idle"
    /\ g_target = "HostTask"
    /\ itermax = 1
    /\ tol = 1
    /\ use_fallback = TRUE
    /\ nrhs = 1
    /\ iter = 0
    /\ info = 0
    /\ converged = FALSE
    /\ iiter = 0
    /\ Anorm = 0
    /\ cte = 0
    /\ colnorms_X = <<0>>
    /\ colnorms_R = <<0>>
    /\ matA = <<"A", 0>>
    /\ matB = <<"B", 0>>
    /\ matX = <<"X", 0>>
    /\ matR = <<"empty", 0>>
    /\ matA_lo = <<"empty", 0>>
    /\ matX_lo = <<"empty", 0>>
    /\ pivots = "none"
    /\ calls = <<>>
    /\ timers = {}
    /\ held = {}

\* heev is not being called
HeevIdle ==
    /\ h_grid = <<1, 1>>
    /\ h_n = 0
    /\ h_nb = 1
    /\ h_pc = <<"idle">>
    /\ h_log = <<(<<>>)>>
    /\ bandA = <<{}>>
    /\ Aband = <<{}>>
    /\ sent = {}
    /\ W = <<[len |-> 0, val |-> "entry"]>>
    /\ E = <<[made |-> FALSE, hi |-> 0, lo |-> 0]>>

NoView == [made |-> FALSE, from |-> "none", rows |-> <<0, 0>>,
           cols |-> <<0, 0>>]

TriIdle ==
    /\ t_pc = "idle"
    /\ t_range = <<0, 0, 0, 0>>
    /\ t_view = NoView
    /\ t_error = "none"

Init == HerkInit(OptionMaps) /\ GesvIdle /\ HeevIdle /\ TriIdle

\* ------------------------------------------------------------------------
\* The master thread
\* ------------------------------------------------------------------------
Issue(t) ==
    /\ tasks' = Append(tasks, t)
    /\ status' = Append(status, "waiting")
    /\ work' = Append(work, NoWork)

\* herk(alpha, A, beta, C, opts): read the options, call the specialization
HerkCall ==
    /\ pc = "call"
    /\ lookahead' = GetLookahead
    /\ pc' = "setup"
    /\ UNCHANGED <<inputs, kk, graph, tiles, wspace>>
    /\ UNCHANGED <<failed, gesv, heevVars, triVars>>

\* token vectors; device batch arrays and workspace for Target::Devices
Setup ==
    /\ pc = "setup"
    /\ IF target = "Devices"
       THEN batchArrays' = TRUE /\ devWorkspace' = TRUE
       ELSE UNCHANGED wspace
    /\ pc' = "bcast0"
    /\ UNCHANGED <<inputs, kk, lookahead, graph, tiles>>
    /\ UNCHANGED <<failed, gesv, heevVars, triVars>>

IssueBcast0 ==
    /\ pc = "bcast0"
    /\ Issue(Bcast0Task)
    /\ pc' = "prefetch"
    /\ kk' = 1
    /\ UNCHANGED <<inputs, lookahead, tiles, wspace>>
    /\ UNCHANGED <<failed, gesv, heevVars, triVars>>

IssuePrefetch ==
    /\ pc = "prefetch"
    /\ IF PrefetchCond(kk)
       THEN /\ Issue(PrefetchTask(kk))
            /\ kk' = kk + 1
            /\ pc' = pc
       ELSE /\ pc' = "herk0"
            /\ UNCHANGED <<kk, graph>>
    /\ UNCHANGED <<inputs, lookahead, tiles, wspace>>
    /\ UNCHANGED <<failed, gesv, heevVars, triVars>>

IssueHerk0 ==
    /\ pc = "herk0"
    /\ Issue(Herk0Task)
    /\ pc' = "loop_bcast"
    /\ kk' = 1
    /\ UNCHANGED <<inputs, lookahead, tiles, wspace>>
    /\ UNCHANGED <<failed, gesv, heevVars, triVars>>

\* main loop, first half of iteration kk (or loop exit)
LoopBcast ==
    /\ pc = "loop_bcast"
    /\ IF kk < nt
       THEN /\ IF LoopBcastCond(kk)
               THEN Issue(LoopBcastTask(kk))
               ELSE UNCHANGED graph
            /\ pc' = "loop_herk"
       ELSE /\ pc' = "barrier"
            /\ UNCHANGED graph
    /\ UNCHANGED <<inputs, kk, lookahead, tiles, wspace>>
    /\ UNCHANGED <<failed, gesv, heevVars, triVars>>

\* main loop, second half of iteration kk
LoopHerk ==
    /\ pc = "loop_herk"
    /\ Issue(LoopHerkTask(kk))
    /\ kk' = kk + 1
    /\ pc' = "loop_bcast"
    /\ UNCHANGED <<inputs, lookahead, tiles, wspace>>
    /\ UNCHANGED <<failed, gesv, heevVars, triVars>>

\* end of the parallel region: the implicit barrier waits for every task
Barrier ==
    /\ pc = "barrier"
    /\ AllTasksDone
    /\ pc' = "flush"
    /\ UNCHANGED <<inputs, kk, lookahead, graph, tiles, wspace>>
    /\ UNCHANGED <<failed, gesv, heevVars, triVars>>

\* C.tileMoveToHost(i, j, C.tileDevice(i, j)) for the local lower tiles
FlushToHost ==
    /\ pc = "flush"
    /\ hostC' = HostAfterMove(FlushTiles)
    /\ hostValid' = ValidAfterMove(FlushTiles)
    /\ onDevice' = onDevice \ FlushTiles
    /\ pc' = "clear"
    /\ UNCHANGED <<inputs, kk, lookahead, graph, devC, recvA, fault, wspace>>
    /\ UNCHANGED <<failed, gesv, heevVars, triVars>>

\* C.clearWorkspace(): drop every workspace (device) copy
ClearWorkspace ==
    /\ pc = "clear"
    /\ onDevice' = {}
    /\ devWorkspace' = FALSE
    /\ pc' = "done"
    /\ UNCHANGED <<inputs, kk, lookahead, graph, hostC, devC, hostValid,
                   recvA, fault, batchArrays>>
    /\ UNCHANGED <<failed, gesv, heevVars, triVars>>

\* ------------------------------------------------------------------------
\* The worker threads: a ready task starts, a running task finishes
\* ------------------------------------------------------------------------
StartBcast(n) ==
    /\ n \in 1..Len(tasks)
    /\ tasks[n].kind = "bcast"
    /\ Ready(n)
    /\ status' = [status EXCEPT ![n] = "running"]
    /\ UNCHANGED <<inputs, control, tasks, work, tiles, wspace>>
    /\ UNCHANGED <<failed, gesv, heevVars, triVars>>

\* the broadcast loop over i has delivered block column k
FinishBcast(n) ==
    /\ n \in 1..Len(tasks)
    /\ tasks[n].kind = "bcast"
    /\ status[n] = "running"
    /\ status' = [status EXCEPT ![n] = "done"]
    /\ recvA' = recvA \cup BcastRecv(tasks[n].k)
    /\ UNCHANGED <<inputs, control, tasks, work, hostC, devC, onDevice,
                   hostValid, fault, wspace>>
    /\ UNCHANGED <<failed, gesv, heevVars, triVars>>

\* internal::herk starts: it reads block column k of A and the tiles of C
StartHerk(n) ==
    /\ n \in 1..Len(tasks)
    /\ tasks[n].kind = "herk"
    /\ Ready(n)
    /\ status' = [status EXCEPT ![n] = "running"]
    /\ work' = [work EXCEPT ![n] = HerkUpdate(tasks[n].k, tasks[n].coef)]
    /\ fault' = (fault \/ HerkReadsMissing(tasks[n].k))
    /\ UNCHANGED <<inputs, control, tasks, hostC, devC, onDevice, hostValid,
                   recvA, wspace>>
    /\ UNCHANGED <<failed, gesv, heevVars, triVars>>

\* internal::herk finishes: the local tiles of C hold the update, on the
\* device for Target::Devices and on the host otherwise
FinishHerk(n) ==
    /\ n \in 1..Len(tasks)
    /\ tasks[n].kind = "herk"
    /\ status[n] = "running"
    /\ status' = [status EXCEPT ![n] = "done"]
    /\ work' = [work EXCEPT ![n] = NoWork]
    /\ IF target = "Devices"
       THEN /\ devC' = work[n]
            /\ onDevice' = LocalC
            /\ hostValid' = [t \in LocalC |-> FALSE]
            /\ UNCHANGED hostC
       ELSE /\ hostC' = work[n]
            /\ hostValid' = [t \in LocalC |-> TRUE]
            /\ onDevice' = {}
            /\ UNCHANGED devC
    /\ UNCHANGED <<inputs, control, tasks, recvA, fault, wspace>>
    /\ UNCHANGED <<failed, gesv, heevVars, triVars>>

Next ==
    \/ HerkCall
    \/ Setup
    \/ IssueBcast0
    \/ IssuePrefetch
    \/ IssueHerk0
    \/ LoopBcast
    \/ LoopHerk
    \/ Barrier
    \/ FlushToHost
    \/ ClearWorkspace
    \/ \E n \in 1..Len(tasks) : StartBcast(n)
    \/ \E n \in 1..Len(tasks) : FinishBcast(n)
    \/ \E n \in 1..Len(tasks) : StartHerk(n)
    \/ \E n \in 1..Len(tasks) : FinishHerk(n)

Spec == Init /\ [][Next]_vars

\* Scheduling does not read tile values: the fair specification fixes the
\* scalars and the process grid and keeps every nt, mt, lookahead and target.
LiveInit ==
    /\ Init
    /\ alpha = 1
    /\ beta = 2
    /\ grid = <<2, 1>>

\* the OpenMP runtime runs a ready task while one exists and the master
\* thread keeps going: some enabled step is eventually taken
FairSpec == LiveInit /\ [][Next]_vars /\ WF_vars(Next)

\* ------------------------------------------------------------------------
\* A kernel that fails.  internal::herk and tileBcast return void and herk
\* has no try block, no status check and no cleanup object between the
\* reservation of the workspace (lines 86-89) and its release (line 164):
\* a failure is an exception that leaves the structured block of a task,
\* which OpenMP leaves undefined.  Two outcomes are kept: the process is
\* terminated, or the failure is lost and the task counts as complete.
\* ------------------------------------------------------------------------
StartedTasks == {n \in 1..Len(tasks) : status[n] \in {"running", "done"}}

Failure(n) == [task |-> n, started |-> StartedTasks]

KernelFailsAbort(n) ==
    /\ status[n] = "running"
    /\ failed' = failed \cup {Failure(n)}
    /\ status' = [m \in 1..Len(tasks) |->
                     IF status[m] = "done" THEN "done" ELSE "killed"]
    /\ pc' = "terminated"
    /\ UNCHANGED <<inputs, kk, lookahead, tasks, work, tiles, wspace, gesv,
                   heevVars, triVars>>

\* the first failure of a call is followed; the pipeline goes on after it
KernelFailsIgnored(n) ==
    /\ status[n] = "running"
    /\ failed = {}
    /\ failed' = failed \cup {Failure(n)}
    /\ status' = [status EXCEPT ![n] = "done"]
    /\ UNCHANGED <<inputs, control, tasks, work, tiles, wspace, gesv,
                   heevVars, triVars>>

NextFail ==
    \/ Next
    \/ \E n \in 1..Len(tasks) : KernelFailsAbort(n)
    \/ \E n \in 1..Len(tasks) : KernelFailsIgnored(n)

SpecFail == LiveInit /\ [][NextFail]_vars

\* ------------------------------------------------------------------------
\* A malformed option: herk reads Option::Lookahead with opts.at() and uses
\* the value as it is (lines 220-226)
\* ------------------------------------------------------------------------
MalformedOptionMaps == {{<<"Lookahead", -1>>}}

MalformedInit ==
    HerkInit(MalformedOptionMaps) /\ GesvIdle /\ HeevIdle /\ TriIdle

SpecMalformed == MalformedInit /\ [][Next]_vars

\* ------------------------------------------------------------------------
\* Vocabulary of the properties
\* ------------------------------------------------------------------------
\* disseminate(k) is the broadcast task of block column k, advance(k) the
\* herk task of block column k
TasksOf(kind, k) ==
    {n \in 1..Len(tasks) : tasks[n].kind = kind /\ tasks[n].k = k}

Started(kind, k) ==
    \E n \in TasksOf(kind, k) : status[n] \in {"running", "done"}

Running(kind, k) == \E n \in TasksOf(kind, k) : status[n] = "running"

Completed(kind, k) ==
    /\ TasksOf(kind, k) # {}
    /\ \A n \in TasksOf(kind, k) : status[n] = "done"

RunningTasks == {n \in 1..Len(tasks) : status[n] = "running"}

Steps == 0..(nt - 1)

Returned == pc = "done"

\* value of tile t of C after the fully serial execution of the first n
\* steps: disseminate(0), advance(0), ..., disseminate(n-1), advance(n-1),
\* every tile of A being present when it is read
RECURSIVE SerialC(_, _)
SerialC(n, t) ==
    IF n = 0
    THEN CInit(t[1], t[2])
    ELSE HerkTile(alpha, AVal(t[1], n - 1), AVal(t[2], n - 1),
                  IF n = 1 THEN beta ELSE 1, SerialC(n - 1, t))

\* the task graph that depends only on nt and lookahead: one disseminate and
\* one advance per step, disseminate(k) after disseminate(k-1) and
\* advance(k-lookahead-1), advance(k) after disseminate(k) and advance(k-1)
ExpectedNodes == {"bcast", "herk"} \X Steps

ExpectedEdges ==
    {<<<<"bcast", k - 1>>, <<"bcast", k>>>> : k \in 1..(nt - 1)}
    \cup {<<<<"herk", k - lookahead - 1>>, <<"bcast", k>>>> :
             k \in (lookahead + 1)..(nt - 1)}
    \cup {<<<<"bcast", k>>, <<"herk", k>>>> : k \in Steps}
    \cup {<<<<"herk", k - 1>>, <<"herk", k>>>> : k \in 1..(nt - 1)}

IssuedNodes == {<<tasks[n].kind, tasks[n].k>> : n \in 1..Len(tasks)}

IssuedEdges ==
    {<<<<tasks[m].kind, tasks[m].k>>, <<tasks[n].kind, tasks[n].k>>>> :
        <<m, n>> \in {e \in (1..Len(tasks)) \X (1..Len(tasks)) :
                         e[1] < e[2] /\ DependsOn(tasks[e[1]], tasks[e[2]])}}

\* ------------------------------------------------------------------------
\* Properties
\* ------------------------------------------------------------------------
\* C1: for every nt, every lookahead and every interleaving the tokens
\* allow, the value of C that herk returns equals the value of the fully
\* serial execution, and no step read a tile of A that was not present.
C1_SerialEquivalence ==
    Returned => /\ ~fault
                /\ \A t \in LocalC : hostC[t] = SerialC(nt, t)

C1_Witness ==
    /\ Returned
    /\ nt >= 2
    /\ lookahead \in 1..(nt - 1)
    /\ recvA # {}
    /\ \E t \in LocalC : hostC[t] # CInit(t[1], t[2])

\* C2: advance steps are serialized in k order: advance(k) has not started
\* before advance(k-1) completed, and two advances never run together.
C2_AdvanceSerialized ==
    /\ \A k \in 1..(nt - 1) : Started("herk", k) => Completed("herk", k - 1)
    /\ Cardinality({n \in RunningTasks : tasks[n].kind = "herk"}) <= 1

C2_Witness ==
    /\ Running("herk", 1)
    /\ Completed("herk", 0)

\* C3: advance(k) never starts before disseminate(k) has completed.
C3_AdvanceAfterDisseminate ==
    \A k \in Steps : Started("herk", k) => Completed("bcast", k)

C3_Witness ==
    /\ lookahead >= 1
    /\ Running("herk", 0)
    /\ Running("bcast", 1)

\* C4: disseminate steps are totally ordered: disseminate(k) has not started
\* before disseminate(k-1) completed, whichever loop issued it.
C4_DisseminateOrdered ==
    \A k \in 1..(nt - 1) : Started("bcast", k) => Completed("bcast", k - 1)

\* a disseminate issued by the prefetch loop has completed and one issued by
\* the main loop is running
C4_Witness ==
    /\ lookahead >= 1
    /\ Completed("bcast", lookahead)
    /\ Running("bcast", lookahead + 1)

\* C5: lookahead bound: disseminate(j), j > lookahead, has started only if
\* advance(j-lookahead-1) completed; the highest started disseminate index
\* is at most the number of completed advances plus lookahead.
C5_LookaheadBound ==
    /\ \A j \in Steps :
          (j > lookahead /\ Started("bcast", j))
              => Completed("herk", j - lookahead - 1)
    /\ \A j \in Steps :
          Started("bcast", j)
              => j <= Cardinality({k \in Steps : Completed("herk", k)})
                      + lookahead

C5_Witness ==
    /\ lookahead >= 1
    /\ \E j \in Steps :
          /\ j > lookahead
          /\ Started("bcast", j)
          /\ j = Cardinality({k \in Steps : Completed("herk", k)}) + lookahead

\* C6: with lookahead = 0 the execution is fully serial: at most one task
\* runs at a time, disseminate(k) starts only after advance(k-1) completed
\* and advance(k) only after disseminate(k) completed.
C6_Lookahead0Serial ==
    (pc # "call" /\ lookahead = 0) =>
        /\ Cardinality(RunningTasks) <= 1
        /\ \A k \in 1..(nt - 1) :
              Started("bcast", k) => Completed("herk", k - 1)
        /\ \A k \in Steps : Started("herk", k) => Completed("bcast", k)

C6_Witness ==
    /\ pc # "call"
    /\ lookahead = 0
    /\ Completed("herk", 0)
    /\ Running("bcast", 1)

\* C7: under fair scheduling the pipeline never deadlocks: every issued task
\* eventually completes, herk eventually returns with one disseminate and
\* one advance per step completed, and the host-reconciliation loop runs
\* only after advance(nt-1) has completed.
C7_NoDeadlock ==
    /\ <>(Returned /\ Len(tasks) = 2 * nt /\ AllTasksDone)
    /\ \A n \in 1..(2 * MaxNT) :
          (n <= Len(tasks)) ~> (n <= Len(tasks) /\ status[n] = "done")
    /\ [](pc \in {"flush", "clear", "done"} => Completed("herk", nt - 1))

C7_Witness ==
    /\ pc = "flush"
    /\ nt >= 2
    /\ Completed("herk", nt - 1)

\* C8: flush invariant: when herk returns, every local tile of C has its
\* host origin copy up to date, no device copy of C survives, and (for the
\* device target) the host copy holds the value the device run produced.
C8_FlushInvariant ==
    Returned =>
        /\ onDevice = {}
        /\ ~devWorkspace
        /\ \A t \in LocalC : hostValid[t]
        /\ target = "Devices" => \A t \in LocalC : hostC[t] = SerialC(nt, t)

\* the device run has written the tiles and they are about to be reconciled
C8_Witness ==
    /\ pc = "flush"
    /\ target = "Devices"
    /\ onDevice # {}
    /\ \E t \in onDevice : ~hostValid[t] /\ devC[t] # hostC[t]

\* C9: backend equivalence: for every target the issued tasks and their
\* dependencies are the graph determined by nt and lookahead alone, the
\* returned C is the serial value, and the target decides only whether
\* device workspace is acquired.
C9_BackendEquivalence ==
    /\ pc \in {"barrier", "flush", "clear", "done"} =>
          /\ IssuedNodes = ExpectedNodes
          /\ Len(tasks) = 2 * nt
          /\ IssuedEdges = ExpectedEdges
    /\ pc \notin {"call", "setup"} => batchArrays = (target = "Devices")
    /\ pc \notin {"call", "setup", "done"} =>
          devWorkspace = (target = "Devices")
    /\ Returned => \A t \in LocalC : CurVal(t) = SerialC(nt, t)

C9_Witness ==
    /\ Returned
    /\ target = "Devices"
    /\ nt >= 3
    /\ lookahead = 1
    /\ LocalC # {}

\* C10: when the options map has no Lookahead entry, the pipeline runs with
\* lookahead = 1.
C10_DefaultLookahead ==
    (pc # "call" /\ ~HasOption("Lookahead")) => lookahead = 1

\* the default was used and exactly one block column was prefetched
C10_Witness ==
    /\ ~HasOption("Lookahead")
    /\ nt >= 3
    /\ pc = "herk0"
    /\ Len(tasks) = 2

\* ------------------------------------------------------------------------
\* gesv_mixed (src/unnamed/part_000, lines 106-289)
\* ------------------------------------------------------------------------
MaxItermax == 3
MaxNrhs == 2
MaxOrder == 2

GesvTargets == {"HostTask", "Devices"}
Tolerances == {1, 2}
ANormVals == {1, 2}
XNormVals == {1, 2}
RNormVals == {0, 2, 8}
IterOnEntry == {0, 9}

\* internal::iterRefConverged( colnorms_R, colnorms_X, cte )
iterRefConverged(cR, cX, c) ==
    \A j \in 1..Len(cR) : cR[j] < cX[j] * c

ColNorms(vals) == [1..nrhs -> vals]

Logged(op, result) == Append(calls, <<op, result>>)

\* herk is not being called
HerkIdle ==
    /\ nt = 1
    /\ mt = 1
    /\ grid = <<1, 1>>
    /\ mpiRank = 0
    /\ target = "HostTask"
    /\ opts = {}
    /\ alpha = 1
    /\ beta = 0
    /\ pc = "idle"
    /\ kk = 0
    /\ lookahead = 0
    /\ tasks = <<>>
    /\ status = <<>>
    /\ work = <<>>
    /\ hostC = [t \in LocalC |-> CInit(t[1], t[2])]
    /\ devC = [t \in LocalC |-> 0]
    /\ onDevice = {}
    /\ hostValid = [t \in LocalC |-> TRUE]
    /\ recvA = {}
    /\ fault = FALSE
    /\ batchArrays = FALSE
    /\ devWorkspace = FALSE
    /\ failed = {}

\* the state at the call of gesv_mixed( A, pivots, B, X, iter, opts )
GesvInit ==
    /\ HerkIdle
    /\ HeevIdle
    /\ TriIdle
    /\ g_pc = "call"
    /\ g_target \in GesvTargets
    /\ itermax \in 1..MaxItermax
    /\ tol \in Tolerances
    /\ use_fallback \in BOOLEAN
    /\ nrhs \in 1..MaxNrhs
    /\ iter \in IterOnEntry
    /\ info = 0
    /\ converged = FALSE
    /\ iiter = 0
    /\ Anorm = 0
    /\ cte = 0
    /\ colnorms_X = [j \in 1..nrhs |-> 0]
    /\ colnorms_R = [j \in 1..nrhs |-> 0]
    /\ matA = <<"A", 0>>
    /\ matB = <<"B", 0>>
    /\ matX = <<"X", 0>>
    /\ matR = <<"empty", 0>>
    /\ matA_lo = <<"empty", 0>>
    /\ matX_lo = <<"empty", 0>>
    /\ pivots = "none"
    /\ calls = <<>>
    /\ timers = {}
    /\ held = {}

gesvOpts == <<g_target, itermax, tol, use_fallback, nrhs>>

\* lines 114-167: options, iter = 0, workspace, hold the tiles on the devices
GesvEntry ==
    /\ g_pc = "call"
    /\ converged' = FALSE
    /\ iter' = 0
    /\ held' = IF g_target = "Devices" THEN {"A", "B", "X"} ELSE {}
    /\ g_pc' = "norm"
    /\ UNCHANGED <<gesvOpts, info, iiter, Anorm, cte, colnorms_X, colnorms_R,
                   matA, matB, matX, matR, matA_lo, matX_lo, pivots, calls,
                   timers>>
    /\ UNCHANGED <<herkVars, heevVars, triVars>>

\* lines 169-179: norm of A, stopping criterion, conversions to low precision
GesvNorm ==
    /\ g_pc = "norm"
    /\ \E a \in ANormVals :
          /\ Anorm' = a
          /\ cte' = a * tol
    /\ matX_lo' = <<"B_lo", 0>>
    /\ matA_lo' = <<"A_lo", 0>>
    /\ g_pc' = "getrf_lo"
    /\ UNCHANGED <<gesvOpts, iter, info, converged, iiter, colnorms_X,
                   colnorms_R, matA, matB, matX, matR, pivots, calls, timers,
                   held>>
    /\ UNCHANGED <<herkVars, heevVars, triVars>>

\* the factorization of A_lo followed by the solve whatever info is
GesvGetrfLo_NoSkip ==
    /\ g_pc = "getrf_lo"
    /\ \E i \in 0..MaxOrder :
          /\ info' = i
          /\ calls' = Logged("getrf_lo", i)
          /\ iter' = IF i # 0 THEN -3 ELSE iter
    /\ g_pc' = "solve_lo"
    /\ matA_lo' = <<"LU_lo", 0>>
    /\ pivots' = "lo"
    /\ timers' = timers \cup {"gesv_mixed::getrf_lo"}
    /\ UNCHANGED <<gesvOpts, converged, iiter, Anorm, cte, colnorms_X,
                   colnorms_R, matA, matB, matX, matR, matX_lo, held>>
    /\ UNCHANGED <<herkVars, heevVars, triVars>>

\* lines 181-187: LU factorization of A_lo
GesvGetrfLo ==
    /\ g_pc = "getrf_lo"
    /\ \E i \in 0..MaxOrder :
          /\ info' = i
          /\ calls' = Logged("getrf_lo", i)
          /\ IF i # 0
             THEN iter' = -3 /\ g_pc' = "post"
             ELSE iter' = iter /\ g_pc' = "solve_lo"
    /\ matA_lo' = <<"LU_lo", 0>>
    /\ pivots' = "lo"
    /\ timers' = timers \cup {"gesv_mixed::getrf_lo"}
    /\ UNCHANGED <<gesvOpts, converged, iiter, Anorm, cte, colnorms_X,
                   colnorms_R, matA, matB, matX, matR, matX_lo, held>>
    /\ UNCHANGED <<herkVars, heevVars, triVars>>

\* lines 189-209: low-precision solve, first iterate, residual, column norms
GesvSolveLo ==
    /\ g_pc = "solve_lo"
    /\ matX_lo' = <<"solve_lo", 0>>
    /\ matX' = <<"iterate", 0>>
    /\ matR' = <<"residual", 0>>
    /\ calls' = calls \o <<(<<"getrs_lo", 0>>), (<<"gemm_hi", 0>>)>>
    /\ timers' = timers \cup {"gesv_mixed::getrs_lo", "gesv_mixed::gemm_hi"}
    /\ colnorms_X' \in ColNorms(XNormVals)
    /\ colnorms_R' \in ColNorms(RNormVals)
    /\ g_pc' = "check0"
    /\ UNCHANGED <<gesvOpts, iter, info, converged, iiter, Anorm, cte, matA,
                   matB, matA_lo, pivots, held>>
    /\ UNCHANGED <<herkVars, heevVars, triVars>>

\* lines 211-218: the first check, "int iiter = 0"
GesvCheck0 ==
    /\ g_pc = "check0"
    /\ IF iterRefConverged(colnorms_R, colnorms_X, cte)
       THEN /\ iter' = 0
            /\ converged' = TRUE
            /\ calls' = Logged("check", 1)
       ELSE /\ UNCHANGED <<iter, converged>>
            /\ calls' = Logged("check", 0)
    /\ timers' = timers \cup {"gesv_mixed::add_hi"}
    /\ iiter' = 0
    /\ g_pc' = "loop"
    /\ UNCHANGED <<gesvOpts, info, Anorm, cte, colnorms_X, colnorms_R, matA,
                   matB, matX, matR, matA_lo, matX_lo, pivots, held>>
    /\ UNCHANGED <<herkVars, heevVars, triVars>>

\* the loop condition without "&& ! converged"
GesvLoopTest_IgnoreConverged ==
    /\ g_pc = "loop"
    /\ g_pc' = IF iiter < itermax THEN "refine" ELSE "post"
    /\ UNCHANGED <<gesvOpts, iter, info, converged, iiter, Anorm, cte,
                   colnorms_X, colnorms_R, matA, matB, matX, matR, matA_lo,
                   matX_lo, pivots, calls, timers, held>>
    /\ UNCHANGED <<herkVars, heevVars, triVars>>

\* mutant: the loop admits one iteration more than itermax
GesvLoopTest_OneMore ==
    /\ g_pc = "loop"
    /\ g_pc' = IF iiter <= itermax /\ ~converged THEN "refine" ELSE "post"
    /\ UNCHANGED <<gesvOpts, iter, info, converged, iiter, Anorm, cte,
                   colnorms_X, colnorms_R, matA, matB, matX, matR, matA_lo,
                   matX_lo, pivots, calls, timers, held>>
    /\ UNCHANGED <<herkVars, heevVars, triVars>>

\* line 218: "iiter < itermax && ! converged"
GesvLoopTest ==
    /\ g_pc = "loop"
    /\ g_pc' = IF iiter < itermax /\ ~converged THEN "refine" ELSE "post"
    /\ UNCHANGED <<gesvOpts, iter, info, converged, iiter, Anorm, cte,
                   colnorms_X, colnorms_R, matA, matB, matX, matR, matA_lo,
                   matX_lo, pivots, calls, timers, held>>
    /\ UNCHANGED <<herkVars, heevVars, triVars>>

\* lines 219-247: one refinement iteration up to the column norms
\* mutant: each refinement iteration takes the norm of A again
GesvRefine_RenormA ==
    /\ g_pc = "refine"
    /\ matX_lo' = <<"correction_lo", iiter + 1>>
    /\ matX' = <<"iterate", iiter + 1>>
    /\ matR' = <<"residual", iiter + 1>>
    /\ calls' = calls \o <<(<<"getrs_lo", 0>>), (<<"add_hi", 0>>),
                           (<<"gemm_hi", 0>>)>>
    /\ timers' = timers \cup {"gesv_mixed::getrs_lo", "gesv_mixed::add_hi",
                               "gesv_mixed::gemm_hi"}
    /\ colnorms_X' \in ColNorms(XNormVals)
    /\ colnorms_R' \in ColNorms(RNormVals)
    /\ \E a \in ANormVals :
          /\ Anorm' = a
          /\ cte' = a * tol
    /\ g_pc' = "check"
    /\ UNCHANGED <<gesvOpts, iter, info, converged, iiter, matA,
                   matB, matA_lo, pivots, held>>
    /\ UNCHANGED <<herkVars, heevVars, triVars>>

GesvRefine ==
    /\ g_pc = "refine"
    /\ matX_lo' = <<"correction_lo", iiter + 1>>
    /\ matX' = <<"iterate", iiter + 1>>
    /\ matR' = <<"residual", iiter + 1>>
    /\ calls' = calls \o <<(<<"getrs_lo", 0>>), (<<"add_hi", 0>>),
                           (<<"gemm_hi", 0>>)>>
    /\ timers' = timers \cup {"gesv_mixed::getrs_lo", "gesv_mixed::add_hi",
                               "gesv_mixed::gemm_hi"}
    /\ colnorms_X' \in ColNorms(XNormVals)
    /\ colnorms_R' \in ColNorms(RNormVals)
    /\ g_pc' = "check"
    /\ UNCHANGED <<gesvOpts, iter, info, converged, iiter, Anorm, cte, matA,
                   matB, matA_lo, pivots, held>>
    /\ UNCHANGED <<herkVars, heevVars, triVars>>

\* lines 249-253: the check of a refinement iteration, "++iiter"
GesvCheck ==
    /\ g_pc = "check"
    /\ IF iterRefConverged(colnorms_R, colnorms_X, cte)
       THEN /\ iter' = iiter + 1
            /\ converged' = TRUE
            /\ calls' = Logged("check", 1)
       ELSE /\ UNCHANGED <<iter, converged>>
            /\ calls' = Logged("check", 0)
    /\ iiter' = iiter + 1
    /\ g_pc' = "loop"
    /\ UNCHANGED <<gesvOpts, info, Anorm, cte, colnorms_X, colnorms_R, matA,
                   matB, matX, matR, matA_lo, matX_lo, pivots, timers, held>>
    /\ UNCHANGED <<herkVars, heevVars, triVars>>

\* the fallback decision without "iter = -itermax - 1"
GesvPost_KeepIter ==
    /\ g_pc = "post"
    /\ iter' = iter
    /\ g_pc' = IF ~converged /\ use_fallback THEN "getrf_hi" ELSE "clear"
    /\ UNCHANGED <<gesvOpts, info, converged, iiter, Anorm, cte, colnorms_X,
                   colnorms_R, matA, matB, matX, matR, matA_lo, matX_lo,
                   pivots, calls, timers, held>>
    /\ UNCHANGED <<herkVars, heevVars, triVars>>

\* lines 256-263: "if (! converged)", the iter flag, "if (use_fallback)"
GesvPost ==
    /\ g_pc = "post"
    /\ iter' = IF ~converged /\ info = 0 THEN - itermax - 1 ELSE iter
    /\ g_pc' = IF ~converged /\ use_fallback THEN "getrf_hi" ELSE "clear"
    /\ UNCHANGED <<gesvOpts, info, converged, iiter, Anorm, cte, colnorms_X,
                   colnorms_R, matA, matB, matX, matR, matA_lo, matX_lo,
                   pivots, calls, timers, held>>
    /\ UNCHANGED <<herkVars, heevVars, triVars>>

\* the factorization of A with a pivot vector of its own
GesvGetrfHi_KeepPivots ==
    /\ g_pc = "getrf_hi"
    /\ \E i \in 0..MaxOrder :
          /\ info' = i
          /\ calls' = Logged("getrf_hi", i)
    /\ matA' = <<"LU", 0>>
    /\ pivots' = pivots
    /\ timers' = timers \cup {"gesv_mixed::getrf_hi"}
    /\ g_pc' = "getrs_hi"
    /\ UNCHANGED <<gesvOpts, iter, converged, iiter, Anorm, cte, colnorms_X,
                   colnorms_R, matB, matX, matR, matA_lo, matX_lo, held>>
    /\ UNCHANGED <<herkVars, heevVars, triVars>>

\* lines 266-268: LU factorization of A, in place
GesvGetrfHi ==
    /\ g_pc = "getrf_hi"
    /\ \E i \in 0..MaxOrder :
          /\ info' = i
          /\ calls' = Logged("getrf_hi", i)
    /\ matA' = <<"LU", 0>>
    /\ pivots' = "hi"
    /\ timers' = timers \cup {"gesv_mixed::getrf_hi"}
    /\ g_pc' = "getrs_hi"
    /\ UNCHANGED <<gesvOpts, iter, converged, iiter, Anorm, cte, colnorms_X,
                   colnorms_R, matB, matX, matR, matA_lo, matX_lo, held>>
    /\ UNCHANGED <<herkVars, heevVars, triVars>>

\* the full-precision solve done in place on B, as LAPACK's getrs does
GesvGetrsHi_InPlace ==
    /\ g_pc = "getrs_hi"
    /\ IF info = 0
       THEN /\ matB' = <<"solve_hi", 0>>
            /\ matX' = <<"solve_hi", 0>>
            /\ calls' = Logged("getrs_hi", 0)
       ELSE UNCHANGED <<matB, matX, calls>>
    /\ timers' = timers \cup {"gesv_mixed::getrs_hi"}
    /\ g_pc' = "clear"
    /\ UNCHANGED <<gesvOpts, iter, info, converged, iiter, Anorm, cte,
                   colnorms_X, colnorms_R, matA, matR, matA_lo, matX_lo,
                   pivots, held>>
    /\ UNCHANGED <<herkVars, heevVars, triVars>>

\* the full-precision solve without "if (info == 0)"
GesvGetrsHi_Unconditional ==
    /\ g_pc = "getrs_hi"
    /\ matX' = <<"solve_hi", 0>>
    /\ calls' = Logged("getrs_hi", 0)
    /\ timers' = timers \cup {"gesv_mixed::getrs_hi"}
    /\ g_pc' = "clear"
    /\ UNCHANGED <<gesvOpts, iter, info, converged, iiter, Anorm, cte,
                   colnorms_X, colnorms_R, matA, matB, matR, matA_lo, matX_lo,
                   pivots, held>>
    /\ UNCHANGED <<herkVars, heevVars, triVars>>

\* lines 270-276: full-precision solve when the factorization succeeded
GesvGetrsHi ==
    /\ g_pc = "getrs_hi"
    /\ IF info = 0
       THEN /\ matX' = <<"solve_hi", 0>>
            /\ calls' = Logged("getrs_hi", 0)
       ELSE UNCHANGED <<matX, calls>>
    /\ timers' = timers \cup {"gesv_mixed::getrs_hi"}
    /\ g_pc' = "clear"
    /\ UNCHANGED <<gesvOpts, iter, info, converged, iiter, Anorm, cte,
                   colnorms_X, colnorms_R, matA, matB, matR, matA_lo, matX_lo,
                   pivots, held>>
    /\ UNCHANGED <<herkVars, heevVars, triVars>>

\* lines 280-286: clear the device workspace, the total time
GesvClear ==
    /\ g_pc = "clear"
    /\ held' = IF g_target = "Devices" THEN {} ELSE held
    /\ timers' = timers \cup {"gesv_mixed"}
    /\ g_pc' = "return"
    /\ UNCHANGED <<gesvOpts, iter, info, converged, iiter, Anorm, cte,
                   colnorms_X, colnorms_R, matA, matB, matX, matR, matA_lo,
                   matX_lo, pivots, calls>>
    /\ UNCHANGED <<herkVars, heevVars, triVars>>

\* line 288: "return info"
GesvReturn ==
    /\ g_pc = "return"
    /\ g_pc' = "done"
    /\ UNCHANGED <<gesvOpts, iter, info, converged, iiter, Anorm, cte,
                   colnorms_X, colnorms_R, matA, matB, matX, matR, matA_lo,
                   matX_lo, pivots, calls, timers, held>>
    /\ UNCHANGED <<herkVars, heevVars, triVars>>

GesvNext ==
    \/ GesvEntry
    \/ GesvNorm
    \/ GesvGetrfLo
    \/ GesvSolveLo
    \/ GesvCheck0
    \/ GesvLoopTest
    \/ GesvRefine
    \/ GesvCheck
    \/ GesvPost
    \/ GesvGetrfHi
    \/ GesvGetrsHi
    \/ GesvClear
    \/ GesvReturn

GesvSpec == GesvInit /\ [][GesvNext]_vars

\* ------------------------------------------------------------------------
\* Vocabulary of the gesv_mixed properties
\* ------------------------------------------------------------------------
GesvReturned == g_pc = "done"

\* the logged calls of one operation
CallsOf(op) == SelectSeq(calls, LAMBDA c : c[1] = op)

Ran(op) == CallsOf(op) # <<>>

\* the results of the convergence checks, in order
Checks == CallsOf("check")

\* number of refinement iterations executed
Refinements == Len(CallsOf("add_hi"))

\* the status of the low-precision factorization
InfoLo == CallsOf("getrf_lo")[1][2]

\* the full-precision factorization and solve both ran and succeeded
FallbackSucceeded ==
    /\ Ran("getrf_hi")
    /\ CallsOf("getrf_hi")[1][2] = 0
    /\ Ran("getrs_hi")

\* ------------------------------------------------------------------------
\* heev (src/src/heev.cc, lines 50-92), called by every rank of A.mpiComm()
\* ------------------------------------------------------------------------
MaxN == 3
MaxTile == 3

TileSizes == {1, 2}

HRanks == 0..(h_grid[1] * h_grid[2] - 1)

\* number of block rows and block columns of A
HNt == (h_n + h_nb - 1) \div h_nb

\* the lower tiles within the band of width kd = A.tileNb(0)
BandTiles ==
    {t \in (0..(HNt - 1)) \X (0..(HNt - 1)) : t[1] >= t[2] /\ t[1] - t[2] <= 1}

\* owner of tile t of A: 2-D block-cyclic over the p x q grid
ATileRank(t) == (t[1] % h_grid[1]) + (t[2] % h_grid[2]) * h_grid[1]

\* mutant: Aband is distributed over the grid of A
AbandGrid_LikeA == h_grid

\* "Aband(A.uplo(), n, A.tileNb(0), A.tileNb(0), 1, 1, A.mpiComm())"
AbandGrid == <<1, 1>>

\* owner of tile t of Aband
AbandTileRank(t) == (t[1] % AbandGrid[1]) + (t[2] % AbandGrid[2]) * AbandGrid[1]

\* the tiles of Aband that rank r owns, each with content c
AbandLocal(r, c) == {<<t, c>> : t \in {u \in BandTiles : AbandTileRank(u) = r}}

\* the tiles rank r receives in the gather: its own in Aband, another's in A
AbandRemote(r) ==
    {t \in BandTiles : AbandTileRank(t) = r /\ ATileRank(t) # r}

\* a value of type size_t as hi * 2^64 + lo, for x in -2^63 .. 2^63 - 1
SizeT(x) == [made |-> TRUE, hi |-> IF x < 0 THEN 1 ELSE 0, lo |-> x]

Stage(r, name) == [h_log EXCEPT ![r] = h_log[r] \o <<(<<name, "begin">>), (<<name, "end">>)>>]

HeevInit ==
    /\ HerkIdle
    /\ GesvIdle
    /\ TriIdle
    /\ h_grid \in Grids
    /\ h_n \in 0..MaxN
    /\ h_nb \in TileSizes
    /\ h_pc = [r \in HRanks |-> "call"]
    /\ h_log = [r \in HRanks |-> <<>>]
    /\ bandA = [r \in HRanks |-> {}]
    /\ Aband = [r \in HRanks |-> {}]
    /\ sent = {}
    /\ \E l \in 0..MaxN : W = [r \in HRanks |-> [len |-> l, val |-> "entry"]]
    /\ E = [r \in HRanks |-> [made |-> FALSE, hi |-> 0, lo |-> 0]]

\* mutant: the band reduction followed at once by the resize, the gather
\* left out
He2hb_NoGather(r) ==
    /\ h_pc[r] = "call"
    /\ h_log' = Stage(r, "he2hb")
    /\ bandA' = [bandA EXCEPT ![r] = {t \in BandTiles : ATileRank(t) = r}]
    /\ h_pc' = [h_pc EXCEPT ![r] = "resize"]
    /\ UNCHANGED <<h_grid, h_n, h_nb, Aband, sent, W, E>>
    /\ UNCHANGED <<herkVars, gesv, triVars>>

\* lines 57-64: he2hb(A, T, opts)
He2hb(r) ==
    /\ h_pc[r] = "call"
    /\ h_log' = Stage(r, "he2hb")
    /\ bandA' = [bandA EXCEPT ![r] = {t \in BandTiles : ATileRank(t) = r}]
    /\ h_pc' = [h_pc EXCEPT ![r] = "gather"]
    /\ UNCHANGED <<h_grid, h_n, h_nb, Aband, sent, W, E>>
    /\ UNCHANGED <<herkVars, gesv, triVars>>

\* lines 66-71: construct Aband, insertLocalTiles, enter he2hbGather: the
\* band tiles of A that another rank owns in Aband are sent to that rank
HeGatherBegin(r) ==
    /\ h_pc[r] = "gather"
    /\ h_log' = [h_log EXCEPT ![r] = Append(h_log[r], <<"he2hbGather", "begin">>)]
    /\ Aband' = [Aband EXCEPT ![r] = AbandLocal(r, "empty")]
    /\ sent' = sent \cup {t \in bandA[r] : AbandTileRank(t) # r}
    /\ h_pc' = [h_pc EXCEPT ![r] = "gathering"]
    /\ UNCHANGED <<h_grid, h_n, h_nb, bandA, W, E>>
    /\ UNCHANGED <<herkVars, gesv, triVars>>

\* line 71: he2hbGather returns once the tiles this rank owns in Aband are
\* copied from its own tiles of A or received from their owners
HeGatherEnd(r) ==
    /\ h_pc[r] = "gathering"
    /\ AbandRemote(r) \subseteq sent
    /\ h_log' = [h_log EXCEPT ![r] = Append(h_log[r], <<"he2hbGather", "end">>)]
    /\ Aband' = [Aband EXCEPT ![r] = AbandLocal(r, "band")]
    /\ sent' = sent \ AbandRemote(r)
    /\ h_pc' = [h_pc EXCEPT ![r] = "resize"]
    /\ UNCHANGED <<h_grid, h_n, h_nb, bandA, W, E>>
    /\ UNCHANGED <<herkVars, gesv, triVars>>

\* mutant: the resize without "if (A.mpiRank() == 0)" after it
HeResize_EveryRank(r) ==
    /\ h_pc[r] = "resize"
    /\ W' = [W EXCEPT ![r] = [len |-> h_n, val |-> "resized"]]
    /\ h_pc' = [h_pc EXCEPT ![r] = "hb2st"]
    /\ UNCHANGED <<h_grid, h_n, h_nb, h_log, bandA, Aband, sent, E>>
    /\ UNCHANGED <<herkVars, gesv, triVars>>

\* lines 74-75: W.resize(n); "if (A.mpiRank() == 0)"
HeResize(r) ==
    /\ h_pc[r] = "resize"
    /\ W' = [W EXCEPT ![r] = [len |-> h_n, val |-> "resized"]]
    /\ h_pc' = [h_pc EXCEPT ![r] = IF r = 0 THEN "hb2st" ELSE "done"]
    /\ UNCHANGED <<h_grid, h_n, h_nb, h_log, bandA, Aband, sent, E>>
    /\ UNCHANGED <<herkVars, gesv, triVars>>

\* line 77: hb2st(Aband, opts)
HeHb2st(r) ==
    /\ h_pc[r] = "hb2st"
    /\ h_log' = Stage(r, "hb2st")
    /\ Aband' = [Aband EXCEPT ![r] = {<<x[1], "tridiagonal">> : x \in Aband[r]}]
    /\ h_pc' = [h_pc EXCEPT ![r] = "allocE"]
    /\ UNCHANGED <<h_grid, h_n, h_nb, bandA, sent, W, E>>
    /\ UNCHANGED <<herkVars, gesv, triVars>>

\* line 80: std::vector<real_t> E(n - 1); a length above max_size() makes
\* the constructor throw std::length_error, which leaves heev
HeAllocE(r) ==
    /\ h_pc[r] = "allocE"
    /\ E' = [E EXCEPT ![r] = SizeT(h_n - 1)]
    /\ h_pc' = [h_pc EXCEPT ![r] = IF SizeT(h_n - 1).hi = 0 THEN "copy" ELSE "raised"]
    /\ UNCHANGED <<h_grid, h_n, h_nb, h_log, bandA, Aband, sent, W>>
    /\ UNCHANGED <<herkVars, gesv, triVars>>

\* line 81: internal::copyhb2st(Aband, W, E)
HeCopyhb2st(r) ==
    /\ h_pc[r] = "copy"
    /\ h_log' = Stage(r, "copyhb2st")
    /\ W' = [W EXCEPT ![r].val = "diagonal"]
    /\ h_pc' = [h_pc EXCEPT ![r] = "sterf"]
    /\ UNCHANGED <<h_grid, h_n, h_nb, bandA, Aband, sent, E>>
    /\ UNCHANGED <<herkVars, gesv, triVars>>

\* mutant: sterf followed by the broadcast of W ("todo: bcast W")
HeSterf_BcastW(r) ==
    /\ h_pc[r] = "sterf"
    /\ h_log' = Stage(r, "sterf")
    /\ W' = [q \in HRanks |-> [len |-> h_n, val |-> "eigenvalues"]]
    /\ h_pc' = [h_pc EXCEPT ![r] = "done"]
    /\ UNCHANGED <<h_grid, h_n, h_nb, bandA, Aband, sent, E>>
    /\ UNCHANGED <<herkVars, gesv, triVars>>

\* lines 85-92: sterf<real_t>(W, E, opts); return
HeSterf(r) ==
    /\ h_pc[r] = "sterf"
    /\ h_log' = Stage(r, "sterf")
    /\ W' = [W EXCEPT ![r].val = "eigenvalues"]
    /\ h_pc' = [h_pc EXCEPT ![r] = "done"]
    /\ UNCHANGED <<h_grid, h_n, h_nb, bandA, Aband, sent, E>>
    /\ UNCHANGED <<herkVars, gesv, triVars>>

HeevNext ==
    \/ \E r \in HRanks : He2hb(r)
    \/ \E r \in HRanks : HeGatherBegin(r)
    \/ \E r \in HRanks : HeGatherEnd(r)
    \/ \E r \in HRanks : HeResize(r)
    \/ \E r \in HRanks : HeHb2st(r)
    \/ \E r \in HRanks : HeAllocE(r)
    \/ \E r \in HRanks : HeCopyhb2st(r)
    \/ \E r \in HRanks : HeSterf(r)

HeevSpec == HeevInit /\ [][HeevNext]_vars

\* ------------------------------------------------------------------------
\* Vocabulary of the heev properties
\* ------------------------------------------------------------------------
\* the stages of heev in the order of the source
StageOrder ==
    <<(<<"he2hb", "begin">>), (<<"he2hb", "end">>),
      (<<"he2hbGather", "begin">>), (<<"he2hbGather", "end">>),
      (<<"hb2st", "begin">>), (<<"hb2st", "end">>),
      (<<"copyhb2st", "begin">>), (<<"copyhb2st", "end">>),
      (<<"sterf", "begin">>), (<<"sterf", "end">>)>>

IsPrefix(a, b) == Len(a) <= Len(b) /\ a = SubSeq(b, 1, Len(a))

Logs(r, name, edge) == \E p \in 1..Len(h_log[r]) : h_log[r][p] = <<name, edge>>

\* rank r holds band tiles of A that the gather moves to another rank
Contributes(r) ==
    {t \in BandTiles : ATileRank(t) = r /\ AbandTileRank(t) # r} # {}

PastGather(r) == h_pc[r] \notin {"call", "gather", "gathering"}

HeevLeft(r) == h_pc[r] \in {"done", "raised"}

TilesHeld(r) == {x[1] : x \in Aband[r]}

\* C11: per the documentation of herk the default of Option::Lookahead is 0:
\* a call whose options map has no Lookahead entry runs with lookahead 0.
\* The code runs with lookahead 1 (line 225).
C11_DocDefaultLookahead0 ==
    (pc # "call" /\ ~HasOption("Lookahead")) => lookahead = 0

\* C12: on every exit path of a Devices call, the failure path included, the
\* device workspace is released and no tile of C is left on a device.
\* An exit by a failing kernel skips lines 158-164.
C12_WorkspaceReleasedOnExit ==
    (target = "Devices" /\ pc \in {"done", "terminated"})
        => (~devWorkspace /\ onDevice = {})

\* C13: once a kernel has failed, herk ends by handing the failure to its
\* caller (it neither returns normally nor ends the process) and no step
\* that had not started at the failure is executed.
C13_KernelFailurePropagated ==
    \A f \in failed :
        /\ pc \notin {"done", "terminated"}
        /\ StartedTasks \subseteq f.started

\* C14: a call with a negative lookahead fails at entry: no task is
\* generated and nothing is allocated or reserved.
C14_MalformedFailsAtEntry ==
    (HasOption("Lookahead") /\ OptionAt("Lookahead") < 0)
        => (tasks = <<>> /\ ~batchArrays /\ ~devWorkspace)

\* C15: once gesv_mixed has converged on the low-precision path, iter is the
\* number of refinement iterations executed: the last check is the only one
\* that succeeded, it follows the iter-th refinement iteration (the first
\* check follows none), and no refinement iteration runs after it.
C15_IterCountsRefinements ==
    converged =>
        /\ iter = Refinements
        /\ Len(Checks) = Refinements + 1
        /\ \A c \in 1..Len(Checks) : (Checks[c][2] = 1) <=> (c = Len(Checks))
        /\ ~Ran("getrf_hi")

C15_Witness ==
    /\ GesvReturned
    /\ converged
    /\ iter = 2
    /\ Refinements = 2

\* C16: when the low-precision factorization succeeded and itermax
\* refinement iterations did not converge, iter = -(itermax+1); with
\* use_fallback the full-precision factorization (and, when it succeeds,
\* the solve) runs; without it the full-precision path does not run and
\* the returned status reports a failure.  The code returns status 0.
C16_NonConvergenceReported ==
    (GesvReturned /\ InfoLo = 0 /\ ~converged) =>
        /\ Refinements = itermax
        /\ iter = - (itermax + 1)
        /\ use_fallback =>
              /\ Ran("getrf_hi")
              /\ (info = 0) <=> Ran("getrs_hi")
        /\ ~use_fallback =>
              /\ ~Ran("getrf_hi")
              /\ ~Ran("getrs_hi")
              /\ info # 0

\* C17 as stated: a singular low-precision factorization sets iter = -3,
\* is followed by no low-precision solve, check or refinement, and is
\* always followed directly by the full-precision factorization.
C17_SingularAlwaysFallsBack ==
    (GesvReturned /\ InfoLo # 0) =>
        /\ iter = -3
        /\ ~Ran("getrs_lo")
        /\ ~Ran("check")
        /\ Refinements = 0
        /\ Len(calls) >= 2
        /\ calls[2][1] = "getrf_hi"

\* C17, amended: a singular low-precision factorization sets iter = -3 and
\* is followed by no low-precision solve, residual, check or refinement;
\* with use_fallback the next call is the full-precision factorization,
\* without it gesv_mixed returns with no further call.
C17_SingularSkipsToFallback ==
    (Ran("getrf_lo") /\ InfoLo # 0) =>
        /\ iter = -3
        /\ ~Ran("getrs_lo")
        /\ ~Ran("gemm_hi")
        /\ ~Ran("check")
        /\ Refinements = 0
        /\ GesvReturned =>
              IF use_fallback
              THEN Len(calls) >= 2 /\ calls[2][1] = "getrf_hi"
              ELSE Len(calls) = 1

C17_Witness ==
    /\ GesvReturned
    /\ InfoLo # 0
    /\ use_fallback
    /\ FallbackSucceeded

\* C18: a return with status 0 and iter < 0 means that the full-precision
\* factorization and solve ran and succeeded and A holds the factors L, U,
\* whatever use_fallback is.
C18_NegativeIterMeansFallback ==
    (GesvReturned /\ info = 0 /\ iter < 0) =>
        /\ FallbackSucceeded
        /\ matA = <<"LU", 0>>

\* C19: a positive returned status is the pivot index reported by a
\* full-precision factorization of A, never the one of A_lo.
C19_PositiveStatusFromHi ==
    (GesvReturned /\ info > 0) =>
        /\ Ran("getrf_hi")
        /\ info = CallsOf("getrf_hi")[1][2]

\* C20: on a return with status 0, X is an iterate whose residual passed
\* the convergence predicate, or the result of a full-precision
\* factorization and solve that succeeded.
C20_StatusZeroVerified ==
    (GesvReturned /\ info = 0) =>
        \/ /\ matX[1] = "iterate"
           /\ matR = <<"residual", matX[2]>>
           /\ iterRefConverged(colnorms_R, colnorms_X, cte)
        \/ /\ matX[1] = "solve_hi"
           /\ FallbackSucceeded

\* the factorization whose pivot sequence is current after the first p
\* logged calls
PivotsAt(p) ==
    LET F == {q \in 1..p : calls[q][1] \in {"getrf_lo", "getrf_hi"}}
        last == CHOOSE q \in F : \A r \in F : r <= q
    IN  IF F = {} THEN "none"
        ELSE IF calls[last][1] = "getrf_lo" THEN "lo" ELSE "hi"

\* X as it is when the fallback starts: the entry value after a singular
\* low-precision factorization, the last iterate otherwise
XBeforeFallback ==
    IF InfoLo # 0 THEN <<"X", 0>> ELSE <<"iterate", itermax>>

\* C21: A is written only by the full-precision factorization of the
\* fallback path, and on a return with status 0 and iter >= 0 refinement
\* has converged and A is as it was at entry.
C21_AUnchangedOnRefinement ==
    /\ (matA # <<"A", 0>>) => Ran("getrf_hi")
    /\ (GesvReturned /\ info = 0 /\ iter >= 0) =>
          /\ converged
          /\ matA = <<"A", 0>>

C21_Witness ==
    /\ GesvReturned
    /\ info = 0
    /\ iter >= 1
    /\ use_fallback
    /\ matA = <<"A", 0>>

\* C22: B is never modified, on any path: at every point of gesv_mixed B
\* holds its entry value, so every residual is computed from it.
C22_BNeverModified ==
    matB = <<"B", 0>>

C22_Witness ==
    /\ GesvReturned
    /\ Refinements >= 1
    /\ Ran("getrs_hi")
    /\ matB = <<"B", 0>>

\* C23: when the fallback ran, the returned status is the info of getrf on
\* A; if it is non-zero the full-precision solve is skipped and X is as it
\* was when the fallback started; iter keeps its negative value.
C23_FallbackResultIsFinal ==
    (GesvReturned /\ Ran("getrf_hi")) =>
        /\ info = CallsOf("getrf_hi")[1][2]
        /\ iter = IF InfoLo # 0 THEN -3 ELSE - (itermax + 1)
        /\ iter < 0
        /\ (info # 0) =>
              /\ ~Ran("getrs_hi")
              /\ matX = XBeforeFallback

C23_Witness ==
    /\ GesvReturned
    /\ Ran("getrf_hi")
    /\ info # 0
    /\ InfoLo = 0
    /\ matX = <<"iterate", itermax>>

\* C24: the returned iter identifies the failure: iter = -3 exactly when
\* the low-precision factorization was singular, iter = -(itermax+1)
\* exactly when itermax refinement iterations ran without convergence.
\* With itermax = 2 the two values are the same.
C24_IterIdentifiesFailure ==
    GesvReturned =>
        /\ (iter = -3) <=> (InfoLo # 0)
        /\ (iter = - (itermax + 1)) <=>
              (InfoLo = 0 /\ ~converged /\ Refinements = itermax)

\* C25: every solve uses the pivot sequence of the latest factorization of
\* the matrix it solves with: the low-precision solves the pivots of
\* getrf( A_lo ), the fallback solve those of getrf( A ); pivots holds the
\* sequence of the latest factorization.
C25_SolvesUseMatchingPivots ==
    /\ pivots = PivotsAt(Len(calls))
    /\ \A p \in 1..Len(calls) :
          /\ (calls[p][1] = "getrs_lo") =>
                (PivotsAt(p) = "lo" /\ matA_lo = <<"LU_lo", 0>>)
          /\ (calls[p][1] = "getrs_hi") =>
                (PivotsAt(p) = "hi" /\ matA = <<"LU", 0>>)

C25_Witness ==
    /\ GesvReturned
    /\ Refinements >= 1
    /\ Ran("getrs_hi")
    /\ pivots = "hi"

\* C26: on every rank the stages of heev are invoked in the order he2hb,
\* gather, hb2st, copyhb2st, sterf, each after the one before it has
\* returned; the gather of the designated rank returns only after every
\* rank that contributes a tile has finished he2hb and entered the gather.
C26_StagesInOrder ==
    /\ \A r \in HRanks : IsPrefix(h_log[r], StageOrder)
    /\ Logs(0, "he2hbGather", "end") =>
          \A r \in HRanks :
              Contributes(r) =>
                  (Logs(r, "he2hb", "end") /\ Logs(r, "he2hbGather", "begin"))

C26_Witness ==
    /\ h_grid = <<2, 2>>
    /\ h_log[0] = StageOrder
    /\ \E r \in HRanks : Contributes(r) /\ h_pc[r] = "gathering"

\* C27: hb2st, copyhb2st and sterf are invoked on rank 0 only; he2hb and
\* the gather are invoked on every rank.
C27_ReductionOnRank0Only ==
    \A r \in HRanks :
        /\ (r # 0) =>
              \A p \in 1..Len(h_log[r]) :
                  h_log[r][p][1] \notin {"hb2st", "copyhb2st", "sterf"}
        /\ HeevLeft(r) =>
              (Logs(r, "he2hb", "end") /\ Logs(r, "he2hbGather", "end"))
        /\ (r = 0 /\ h_pc[r] = "done") => h_log[r] = StageOrder

C27_Witness ==
    /\ h_grid = <<2, 2>>
    /\ h_n >= 2
    /\ \A r \in HRanks : h_pc[r] = "done"

\* C28: every tile of Aband is owned by rank 0; a rank that is past the
\* gather holds the complete band matrix if it is rank 0, and no tile of
\* Aband otherwise, for every process grid.
C28_GatherInvariant ==
    /\ \A t \in BandTiles : AbandTileRank(t) = 0
    /\ \A r \in HRanks :
          PastGather(r) =>
              IF r = 0
              THEN /\ TilesHeld(r) = BandTiles
                   /\ \A x \in Aband[r] : x[2] # "empty"
              ELSE Aband[r] = {}

C28_Witness ==
    /\ h_grid = <<2, 2>>
    /\ Cardinality(BandTiles) >= 3
    /\ \A r \in HRanks : PastGather(r)
    /\ TilesHeld(0) = BandTiles
    /\ \E t \in BandTiles : ATileRank(t) # 0

\* C29: the eigenvalues are not redistributed: a rank that has returned
\* from heev has W of length n; rank 0 holds the eigenvalues in it, and on
\* every other rank W is as the resize left it.
C29_EigenvaluesOnRank0Only ==
    \A r \in HRanks :
        /\ (r # 0) => W[r].val \in {"entry", "resized"}
        /\ (h_pc[r] = "done") =>
              /\ W[r].len = h_n
              /\ W[r].val = IF r = 0 THEN "eigenvalues" ELSE "resized"

C29_Witness ==
    /\ Cardinality(HRanks) >= 2
    /\ h_n >= 1
    /\ \A r \in HRanks : h_pc[r] = "done"
    /\ W[0].val = "eigenvalues"
    /\ W[1].val = "resized"

\* C30: with lookahead >= 1 an advance does not hold back the next
\* disseminate: whenever advance(k) is running and k+1 < NT, the task
\* disseminate(k+1) has been issued and has started or may start at once;
\* the witness is a state in which advance(k) and a disseminate(j), j > k,
\* are running together.
C30_OverlapNotBlocked ==
    (lookahead >= 1) =>
        \A n \in RunningTasks :
            (tasks[n].kind = "herk" /\ tasks[n].k + 1 < nt) =>
                \E m \in TasksOf("bcast", tasks[n].k + 1) :
                    status[m] # "waiting" \/ Ready(m)

C30_Witness ==
    /\ lookahead >= 1
    /\ nt >= 2
    /\ \E k \in Steps : \E j \in Steps :
          /\ j > k
          /\ Running("herk", k)
          /\ Running("bcast", j)

\* C31: a step changes the value of a tile of C only if it is the end of
\* an advance, and then only tiles this rank owns; a disseminate changes
\* none; the copies of A that a broadcast delivers go to tiles this rank
\* does not own, so no origin copy of A is written.
C31_OnlyAdvanceWritesC ==
    [][ /\ (\E t \in LocalC : CurVal(t)' # CurVal(t)) =>
              \E n \in 1..Len(tasks) :
                  /\ tasks[n].kind = "herk"
                  /\ status[n] = "running"
                  /\ status'[n] = "done"
        /\ DOMAIN hostC' = LocalC
        /\ DOMAIN devC' = LocalC
        /\ \A a \in recvA' : ~tileIsLocal(a[1], a[2]) ]_vars

C31_Witness ==
    /\ Completed("herk", 0)
    /\ Completed("bcast", 1)
    /\ recvA # {}
    /\ \E t \in LocalC : CurVal(t) # CInit(t[1], t[2])

\* C32: once disseminate(k) has completed, the owner of every tile C(i, j)
\* of the lower triangle holds A(i, k) and A(j, k), as an origin tile or
\* as a received copy, whatever the process grid.
C32_BroadcastCoverage ==
    \A k \in Steps :
        Completed("bcast", k) =>
            \A t \in LocalC : HaveA(t[1], k) /\ HaveA(t[2], k)

C32_Witness ==
    /\ grid = <<2, 2>>
    /\ mt = 2
    /\ Completed("bcast", 1)
    /\ \E t \in LocalC :
           /\ t[1] # t[2]
           /\ <<t[1], 1>> \in recvA
           /\ <<t[2], 1>> \in recvA

\* C37: for every number of block columns nt >= 1 and every lookahead >= 0,
\* also lookahead >= nt, herk issues exactly one disseminate task and one
\* advance task for each step 0..nt-1: none twice, none for another index,
\* none missing once the issuing loop is over; and the token an advance
\* waits on is the output of a disseminate issued before it.
C37_OneTaskPerStep ==
    /\ \A n \in 1..Len(tasks) : tasks[n].k \in Steps
    /\ \A m, n \in 1..Len(tasks) :
           (tasks[m].kind = tasks[n].kind /\ tasks[m].k = tasks[n].k)
               => m = n
    /\ \A n \in 1..Len(tasks) :
           tasks[n].kind = "herk" =>
               \E m \in 1..(n - 1) :
                   /\ tasks[m].kind = "bcast"
                   /\ tasks[m].out \cap tasks[n].in # {}
                   /\ tasks[m].k = tasks[n].k
    /\ pc \in {"barrier", "flush", "clear", "done"} =>
           /\ Len(tasks) = 2 * nt
           /\ \A k \in Steps :
                  TasksOf("bcast", k) # {} /\ TasksOf("herk", k) # {}

C37_Witness ==
    /\ Returned
    /\ nt = MaxNT
    /\ lookahead >= nt
    /\ Len(tasks) = 2 * nt

\* the sum over the first n block columns of A(i, k) A(j, k)^H
RECURSIVE SumAAH(_, _, _)
SumAAH(n, i, j) ==
    IF n = 0 THEN 0 ELSE SumAAH(n - 1, i, j) + AVal(i, n - 1) * AVal(j, n - 1)

\* C39: beta scales C exactly once, in advance(0); every later advance
\* accumulates with coefficient 1; at return every owned tile holds
\* alpha * sum_k A(i, k) A(j, k)^H + beta * C_initial(i, j).
C39_BetaAppliedOnce ==
    /\ \A n \in 1..Len(tasks) :
           tasks[n].kind = "herk" =>
               tasks[n].coef = IF tasks[n].k = 0 THEN beta ELSE 1
    /\ Returned =>
           \A t \in LocalC :
               hostC[t] = alpha * SumAAH(nt, t[1], t[2])
                              + beta * CInit(t[1], t[2])

C39_Witness ==
    /\ Returned
    /\ nt = MaxNT
    /\ beta = 2
    /\ alpha = 2
    /\ \E t \in LocalC :
           hostC[t] = alpha * SumAAH(nt, t[1], t[2])
                          + beta * CInit(t[1], t[2])

\* ------------------------------------------------------------------------
\* herk on a matrix A that may have no block column (k = 0 in BLAS terms):
\* the token vectors of lines 80-81 are then empty, and the tasks of lines
\* 96-127 are issued all the same.  A kernel that touches a block column A
\* does not have may complete on whatever it finds or bring the run down.
EmptyInit ==
    /\ HerkInitOn(0..MaxNT, OptionMaps)
    /\ GesvIdle
    /\ HeevIdle
    /\ TriIdle
    /\ alpha = 1
    /\ beta = 2
    /\ grid = <<2, 1>>

SpecEmpty == EmptyInit /\ [][NextFail]_vars

TokensOf(n) == tasks[n].in \cup tasks[n].out

\* C38: for every nt >= 0 and lookahead >= 0, every token index and every
\* block-column index used by an issued task lies in 0..nt-1; with nt = 0
\* no task is issued for step 0.
C38_IndicesInRange ==
    \A n \in 1..Len(tasks) :
        /\ tasks[n].k \in Steps
        /\ \A tok \in TokensOf(n) : tok.idx \in Steps

\* ------------------------------------------------------------------------
\* gesv_mixed is straight-line code with one bounded loop, run by the
\* calling thread: a step that is enabled is eventually taken.
GesvLiveInit ==
    /\ GesvInit
    /\ g_target = "HostTask"
    /\ nrhs = 1

GesvFairSpec == GesvLiveInit /\ [][GesvNext]_vars /\ WF_vars(GesvNext)

WorkBounded ==
    /\ Len(CallsOf("getrf_lo")) <= 1
    /\ Refinements <= itermax
    /\ iiter <= itermax
    /\ Len(CallsOf("getrs_lo")) <= 1 + itermax
    /\ Len(CallsOf("getrf_hi")) <= 1
    /\ GesvReturned => Len(CallsOf("getrf_lo")) = 1

\* C33: every call of gesv_mixed factors in low precision exactly once, runs
\* the refinement loop at most itermax times, makes at most 1 + itermax
\* low-precision solves and at most one full-precision factorization, and
\* reaches its return.
C33_BoundedWorkAndReturn == []WorkBounded /\ <>GesvReturned

C33_Witness ==
    /\ GesvReturned
    /\ itermax = MaxItermax
    /\ Refinements = itermax
    /\ Len(CallsOf("getrs_lo")) = 1 + itermax
    /\ Len(CallsOf("getrf_hi")) = 1

\* C35: the threshold cte = ||A||_inf * tol is computed once, from A as it
\* is at entry and before any factorization or solve, and every convergence
\* check of the call uses that same value.
C35_ThresholdFixed ==
    [][ /\ g_pc = "norm" => (calls = <<>> /\ matA = <<"A", 0>>)
        /\ g_pc \notin {"idle", "call", "norm"} =>
               (cte' = cte /\ Anorm' = Anorm /\ cte = Anorm * tol) ]_vars

C35_Witness ==
    /\ Len(Checks) >= 3
    /\ Anorm = 2
    /\ tol = 2
    /\ cte = 4

\* ------------------------------------------------------------------------
\* Two or more calls of gesv_mixed in one process.  timers is not declared
\* in gesv_mixed: it is a map at namespace scope, written with operator[]
\* and never cleared by the function, so it is the one piece of state a
\* call inherits from the calls before it.  Everything else is a local of
\* the function or an argument, and starts afresh; calls is the log of the
\* current call.
GesvAgain ==
    /\ g_pc = "done"
    /\ g_pc' = "call"
    /\ itermax' \in 1..MaxItermax
    /\ use_fallback' \in BOOLEAN
    /\ iter' \in IterOnEntry
    /\ info' = 0
    /\ converged' = FALSE
    /\ iiter' = 0
    /\ Anorm' = 0
    /\ cte' = 0
    /\ colnorms_X' = [j \in 1..nrhs |-> 0]
    /\ colnorms_R' = [j \in 1..nrhs |-> 0]
    /\ matA' = <<"A", 0>>
    /\ matB' = <<"B", 0>>
    /\ matX' = <<"X", 0>>
    /\ matR' = <<"empty", 0>>
    /\ matA_lo' = <<"empty", 0>>
    /\ matX_lo' = <<"empty", 0>>
    /\ pivots' = "none"
    /\ calls' = <<>>
    /\ held' = {}
    /\ UNCHANGED <<g_target, tol, nrhs, timers>>
    /\ UNCHANGED <<herkVars, heevVars, triVars>>

GesvRepeatInit ==
    /\ GesvInit
    /\ g_target = "HostTask"
    /\ tol = 1
    /\ nrhs = 1

GesvRepeatNext ==
    \/ GesvNext
    \/ GesvAgain

GesvRepeatSpec == GesvRepeatInit /\ [][GesvRepeatNext]_vars

\* the keys of timers a call assigns on the path it took, seen at return
TimersWritten ==
    (IF Ran("getrf_lo") THEN {"gesv_mixed::getrf_lo"} ELSE {})
    \cup (IF Ran("getrs_lo") THEN {"gesv_mixed::getrs_lo"} ELSE {})
    \cup (IF Ran("gemm_hi") THEN {"gesv_mixed::gemm_hi"} ELSE {})
    \cup (IF Ran("check") THEN {"gesv_mixed::add_hi"} ELSE {})
    \cup (IF Ran("getrf_hi") THEN {"gesv_mixed::getrf_hi"} ELSE {})
    \cup (IF Ran("getrf_hi") THEN {"gesv_mixed::getrs_hi"} ELSE {})
    \cup {"gesv_mixed"}

\* C34: the refinement state, accumulated timing included, is created at
\* the start of a call and destroyed at its return: whatever timing entries
\* exist when a call returns were written by that call.
C34_NoTimingSurvives ==
    GesvReturned => timers \subseteq TimersWritten

\* ------------------------------------------------------------------------
\* C40: for every n >= 0 the vector E that heev allocates on rank 0 has
\* length max(n - 1, 0) and W has length n; the computation of n - 1 never
\* wraps to a huge unsigned length.
C40_LengthsNeverWrap ==
    \A r \in HRanks :
        /\ E[r].made =>
               /\ r = 0
               /\ E[r].hi = 0
               /\ E[r].lo = IF h_n >= 1 THEN h_n - 1 ELSE 0
        /\ W[r].val # "entry" => W[r].len = h_n

\* ------------------------------------------------------------------------
\* TriangularMatrix conversion constructors with a tile range
\* (include/slate/TriangularMatrix.hh).  The original matrix is taken to
\* have tiles 0..MaxTile in both directions, so every drawn index is a tile
\* of it; i2 < i1 or j2 < j1 is an empty range.
TileIdx == 0..MaxTile

\* "if ((i2 - i1) != (j2 - j1))"
\* mutant: only the last indices are compared
RangeNotSquare_EndsOnly(r) == r[2] # r[4]

RangeNotSquare(r) == (r[2] - r[1]) # (r[4] - r[3])

\* the base-class sub-matrix view over rows i1..i2 and columns j1..j2
TrapezoidView(from, r) ==
    [made |-> TRUE, from |-> from, rows |-> <<r[1], r[2]>>,
     cols |-> <<r[3], r[4]>>]

TriInit ==
    /\ HerkIdle
    /\ GesvIdle
    /\ HeevIdle
    /\ t_pc = "call"
    /\ t_range \in TileIdx \X TileIdx \X TileIdx \X TileIdx
    /\ t_view = NoView
    /\ t_error = "none"

\* TriangularMatrix(Diag, BaseTrapezoidMatrix& orig, i1, i2, j1, j2)
TriFromBaseTrapezoid ==
    /\ t_pc = "call"
    /\ IF RangeNotSquare(t_range)
       THEN /\ t_error' = "i2 - i1 != j2 - j1, BaseTrapezoid"
            /\ t_view' = NoView
       ELSE /\ t_error' = "none"
            /\ t_view' = TrapezoidView("BaseTrapezoid", t_range)
    /\ t_pc' = "done"
    /\ UNCHANGED t_range
    /\ UNCHANGED <<herkVars, gesv, heevVars>>

\* TriangularMatrix(Uplo, Diag, Matrix& orig, i1, i2, j1, j2)
TriFromMatrix ==
    /\ t_pc = "call"
    /\ IF RangeNotSquare(t_range)
       THEN /\ t_error' = "i2 - i1 != j2 - j1, Matrix"
            /\ t_view' = NoView
       ELSE /\ t_error' = "none"
            /\ t_view' = TrapezoidView("Matrix", t_range)
    /\ t_pc' = "done"
    /\ UNCHANGED t_range
    /\ UNCHANGED <<herkVars, gesv, heevVars>>

TriNext ==
    \/ TriFromBaseTrapezoid
    \/ TriFromMatrix

TriSpec == TriInit /\ [][TriNext]_vars

\* C36: a TriangularMatrix conversion constructor given a tile range with
\* i2 - i1 # j2 - j1 fails with a runtime error and produces no view; given
\* i2 - i1 = j2 - j1 it does not fail for that reason and the view covers
\* exactly the range.
C36_NonSquareRangeRejected ==
    t_pc = "done" =>
        IF t_range[2] - t_range[1] # t_range[4] - t_range[3]
        THEN /\ ~t_view.made
             /\ t_error \in {"i2 - i1 != j2 - j1, BaseTrapezoid",
                             "i2 - i1 != j2 - j1, Matrix"}
        ELSE /\ t_error = "none"
             /\ t_view.made
             /\ t_view.rows = <<t_range[1], t_range[2]>>
             /\ t_view.cols = <<t_range[3], t_range[4]>>

C36_Witness ==
    /\ t_pc = "done"
    /\ t_range = <<1, 2, 0, 2>>
    /\ t_error = "i2 - i1 != j2 - j1, Matrix"
    /\ ~t_view.made

====
